---- MODULE Spec2Model ----
(***************************************************************************)
(* Model of the Navigation API facade (components/script/dom/navigation.rs)*)
(* the session-history step selection of the constellation navigable       *)
(* (components/constellation/navigable.rs), the parallel queue and the      *)
(* script navigable (components/script/navigable.rs), the session history   *)
(* entries (components/shared/script/session_history.rs), AbortSignal       *)
(* (components/script/dom/abortsignal.rs) and NavigateEvent                 *)
(* (components/script/dom/navigateevent.rs).                                *)
(***************************************************************************)
EXTENDS Integers, Sequences, FiniteSets, TLC

\* ------------------------------------------------------------------ bounds
MaxEntries == 3
MaxKey == 3
MaxShes == 2
MaxStep == 2
MaxRecorded == 4
MaxTasks == 3
MaxInitialized == 2
MaxHistory == 2
MaxDocument == 2
MaxUuids == 3
MaxSignals == 3
MaxAlgorithms == 2
MaxSignalCalls == 5
MaxHandlers == 2

\* ------------------------------------------------------------------ Option
None == <<>>
Some(x) == <<x>>
IsSome(o) == Len(o) = 1
Unwrap(o) == o[1]

VARIABLES
    \* ---- Navigation (navigation.rs)
    entry_list,                              \* Vec<NavigationHistoryEntry>, by key
    current_entry_index,                     \* Option<usize>
    upcoming_non_traverse_method_tracker,    \* Option<NavigationApiMethodTracker>
    upcoming_traverse_method_tracker,        \* IndexMap<String, tracker>, as a sequence of pairs
    promises,                                \* every Promise created so far, by id
    document,                                \* the Document collaborator as the calls observe it
    aborted,                                 \* the script thread panicked
    last                                     \* the last API call and what it returned

VARIABLES
    \* ---- constellation Navigable (constellation/navigable.rs)
    session_history_entries,                 \* Vec<SessionHistoryEntry>
    used,                                    \* the last get_the_used_step call
    parent,                                  \* Option<Weak<Navigable>>
    top_level                                \* the last is_top_level call

VARIABLES
    \* ---- ParallelQueueImpl (script/navigable.rs)
    queue,                                   \* Mutex<Vec<T>>, tasks by enqueue number
    queue_lock,                              \* holder of the queue mutex
    is_running,                              \* Mutex<bool>
    worker,                                  \* position of the worker thread
    task,                                    \* the task the worker popped
    client,                                  \* position of the thread that owns the queue
    enqueued,                                \* number of enqueue calls so far
    log                                      \* starts and finishes of tasks and the call of stop, in order

VARIABLES
    \* ---- script Navigable (script/navigable.rs)
    navigable,                               \* parent, current and active session history entry
    rc_entries,                              \* every Rc<SessionHistoryEntry> made so far, by allocation
    traversable,                             \* TraversableNavigable
    initialized                              \* the last initialize call

VARIABLES
    \* ---- session history entries (shared/script/session_history.rs)
    history_entries,                         \* a navigable's Vec<SessionHistoryEntry>
    created,                                 \* the entry SessionHistoryEntry::new returned last
    uuids,                                   \* number of Uuid::new_v4 keys handed out
    target                                   \* the last get_the_target_history_entry call

VARIABLES
    \* ---- AbortSignal (script/dom/abortsignal.rs)
    signals,                                 \* every AbortSignal made so far, by allocation
    algorithms,                              \* every AbortAlgorithm made so far: its signal, its runs
    last_call,                               \* the last call made on the signals
    signal_calls                             \* number of calls made on the signals

VARIABLES
    \* ---- NavigateEvent (script/dom/navigateevent.rs)
    navigate_event,                          \* the event and what its checks read
    scrolled_document,                       \* what process_scroll_behavior did to the Document
    event_call                               \* the last call on the event and its result

navigableVars == <<navigable, rc_entries, traversable, initialized>>
eventVars == <<navigate_event, scrolled_document, event_call>>
signalVars == <<signals, algorithms, last_call, signal_calls>>
entriesVars == <<history_entries, created, uuids, target>>
domVars == <<navigableVars, entriesVars, signalVars, eventVars>>

stepVars == <<session_history_entries, used, parent, top_level>>
queueVars == <<queue, queue_lock, is_running, worker, task, client, enqueued, log>>

navVars == <<entry_list, current_entry_index, upcoming_non_traverse_method_tracker,
             upcoming_traverse_method_tracker, promises, document, aborted, last>>

vars == <<navVars, stepVars, queueVars, domVars>>

\* ------------------------------------------------------------------ errors
InvalidState == "InvalidStateError"
Syntax == "SyntaxError"
NotSupported == "NotSupportedError"
AbortError == "AbortError"
SecurityError == "SecurityError"

\* ------------------------------------------------------------------ promises
Undefined == [kind |-> "undefined", name |-> "", key |-> 0]
ErrorValue(e) == [kind |-> "error", name |-> e, key |-> 0]
EntryValue(k) == [kind |-> "entry", name |-> "", key |-> k]
ResultValue == [kind |-> "result", name |-> "", key |-> 0]

\* Promise::new: a fresh pending promise under an identity no live promise has.
NewId(ps) == CHOOSE i \in 1..(Cardinality(DOMAIN ps) + 1) :
                /\ i \notin DOMAIN ps
                /\ \A j \in 1..(i - 1) : j \in DOMAIN ps

PromiseNew(ps) == ps @@ (NewId(ps) :> [state |-> "pending", value |-> Undefined])

\* Promise collaborator: settling a settled promise is a no-op.
ResolveNative(ps, id, v) ==
    IF ps[id].state = "pending"
    THEN [ps EXCEPT ![id] = [state |-> "resolved", value |-> v]]
    ELSE ps

RejectError(ps, id, e) ==
    IF ps[id].state = "pending"
    THEN [ps EXCEPT ![id] = [state |-> "rejected", value |-> ErrorValue(e)]]
    ELSE ps

NoPromise == 0

\* What a call handed back to script.
Returned(kind, c, f, e) ==
    [outcome |-> kind, committed |-> c, finished |-> f, error |-> e, flag |-> FALSE]

NavigationApiMethodTracker_new(committed, finished) ==
    [key |-> None, state |-> None, committed_to_entry |-> None,
     committed_promise |-> committed, finished_promise |-> finished]

\* early_error_result: one promise, rejected with error, used for both members.
early_error_result(ps, error) ==
    LET ps1 == PromiseNew(ps)
        id == NewId(ps)
    IN [promises |-> RejectError(ps1, id, error),
        result |-> Returned("early_error", id, id, error)]

\* method_tracker_derived_result: creates (and resolves) a promise it never
\* hands out; the result carries the tracker's two promises.
method_tracker_derived_result(ps, tracker) ==
    LET ps1 == PromiseNew(ps)
        id == NewId(ps)
    IN [promises |-> ResolveNative(ps1, id, ResultValue),
        result |-> Returned("derived", tracker.committed_promise,
                            tracker.finished_promise, "")]

\* ------------------------------------------------------------------ IndexMap
RECURSIVE MapIndexOf(_, _, _)
MapIndexOf(map, k, i) ==
    IF i > Len(map) THEN 0
    ELSE IF map[i].key = k THEN i
    ELSE MapIndexOf(map, k, i + 1)

\* IndexMap::get
MapGet(map, k) ==
    LET i == MapIndexOf(map, k, 1)
    IN IF i = 0 THEN None ELSE Some(map[i].value)

\* IndexMap::insert_sorted: an existing key keeps its place, takes the new
\* value and the OLD value is returned; a new key goes to its sorted position
\* and None is returned.
insert_sorted(map, k, v) ==
    LET i == MapIndexOf(map, k, 1)
        pos == Cardinality({j \in 1..Len(map) : map[j].key < k})
    IN IF i # 0
       THEN [map |-> [map EXCEPT ![i] = [key |-> k, value |-> v]],
             old |-> Some(map[i].value)]
       ELSE [map |-> SubSeq(map, 1, pos) \o <<[key |-> k, value |-> v]>>
                     \o SubSeq(map, pos + 1, Len(map)),
             old |-> None]

\* ------------------------------------------------------------------ Document
HistoryApplicationResult == {"Applied", "CancelledByBeforeUnload", "InitiatorDisallowed"}

\* What the Document collaborator answers once a traversal is being set up:
\* the search of its session history entries finds no entry for the key; or
\* it has no browsing context; or the entry found is the active entry; or the
\* entry's step is still pending; or the step is applied with one of the
\* three results.
DocumentAnswers ==
    {"no_entry", "no_browsing_context", "is_active_entry", "step_pending"}
    \cup HistoryApplicationResult

\* ------------------------------------------------------------------ Navigation
\* has_entries_and_events_disabled without the opaque-origin test.
has_entries_and_events_disabled_NoOpaque(doc) ==
    IF ~doc.fully_active THEN TRUE
    ELSE doc.initial_about_blank

\* has_entries_and_events_disabled
has_entries_and_events_disabled(doc) ==
    IF ~doc.fully_active THEN TRUE
    ELSE IF doc.initial_about_blank THEN TRUE
    ELSE doc.opaque_origin

\* Vec::get on the 0-based index
VecGet(list, i) == IF i >= 0 /\ i < Len(list) THEN Some(list[i + 1]) ELSE None

\* GetCurrentEntry reading the entry after the current one.
GetCurrentEntry_Next(doc, list, idx) ==
    IF has_entries_and_events_disabled(doc) THEN None
    ELSE IF IsSome(idx) THEN VecGet(list, Unwrap(idx) + 1)
    ELSE None

\* GetCurrentEntry
GetCurrentEntry(doc, list, idx) ==
    IF has_entries_and_events_disabled(doc) THEN None
    ELSE IF IsSome(idx) THEN VecGet(list, Unwrap(idx))
    ELSE None

\* Entries
Entries(doc, list) ==
    IF has_entries_and_events_disabled(doc) THEN <<>> ELSE list

\* CanGoBack with the boundary test off by one.
CanGoBack_OffByOne(doc, idx) ==
    IF has_entries_and_events_disabled(doc) THEN FALSE
    ELSE IF IsSome(idx) THEN Unwrap(idx) >= 0
    ELSE FALSE

\* CanGoBack
CanGoBack(doc, idx) ==
    IF has_entries_and_events_disabled(doc) THEN FALSE
    ELSE IF IsSome(idx) THEN Unwrap(idx) > 0
    ELSE FALSE

\* CanGoForward; `len() - 1` on usize
CanGoForward(doc, list, idx) ==
    IF has_entries_and_events_disabled(doc) THEN FALSE
    ELSE IF IsSome(idx) THEN Unwrap(idx) = Len(list) - 1
    ELSE FALSE

\* add_an_upcoming_traverse_api_method_tracker: the tracker is stored, and
\* what insert_sorted hands back (the value previously stored under key) is
\* unwrapped and returned.
add_an_upcoming_traverse_api_method_tracker(ps, map, key) ==
    LET ps1 == PromiseNew(ps)
        committed_promise == NewId(ps)
        ps2 == PromiseNew(ps1)
        finished_promise == NewId(ps1)
        ps3 == ResolveNative(ps2, finished_promise, Undefined)
        tracker == NavigationApiMethodTracker_new(committed_promise, finished_promise)
        ins == insert_sorted(map, key, tracker)
    IN [promises |-> ps3,
        map |-> ins.map,
        panicked |-> ~IsSome(ins.old),
        tracker |-> IF IsSome(ins.old) THEN Unwrap(ins.old) ELSE tracker]

\* maybe_set_the_upcoming_non_traverse_api_method_tracker storing the tracker
\* whether or not entries and events are disabled.
maybe_set_the_upcoming_non_traverse_api_method_tracker_Always(ps, doc, slot) ==
    LET ps1 == PromiseNew(ps)
        committed_promise == NewId(ps)
        ps2 == PromiseNew(ps1)
        finished_promise == NewId(ps1)
        ps3 == ResolveNative(ps2, finished_promise, Undefined)
        api_method_tracker == NavigationApiMethodTracker_new(committed_promise, finished_promise)
    IN [promises |-> ps3,
        slot |-> Some(api_method_tracker),
        tracker |-> api_method_tracker]

\* maybe_set_the_upcoming_non_traverse_api_method_tracker
maybe_set_the_upcoming_non_traverse_api_method_tracker(ps, doc, slot) ==
    LET ps1 == PromiseNew(ps)
        committed_promise == NewId(ps)
        ps2 == PromiseNew(ps1)
        finished_promise == NewId(ps1)
        ps3 == ResolveNative(ps2, finished_promise, Undefined)
        api_method_tracker == NavigationApiMethodTracker_new(committed_promise, finished_promise)
    IN [promises |-> ps3,
        slot |-> IF ~has_entries_and_events_disabled(doc)
                 THEN Some(api_method_tracker) ELSE slot,
        tracker |-> api_method_tracker]

\* The effect of one call on the Navigation object.
Effect(ps, map, res, panicked, applied) ==
    [promises |-> ps, map |-> map, result |-> res, panicked |-> panicked, applied |-> applied]

\* A panic, by the unwrap that raised it.
Panic(site) == Returned("panic", NoPromise, NoPromise, site)

EarlyError(ps, map, error) ==
    LET e == early_error_result(ps, error)
    IN Effect(e.promises, map, e.result, FALSE, "")

\* perform_a_navigation_api_traversal; answer is what the Document
\* collaborator answers from step 12 on.
perform_a_navigation_api_traversal(ps, map, doc, list, idx, key, answer) ==
    IF ~doc.fully_active THEN EarlyError(ps, map, InvalidState)
    ELSE IF doc.unload_counter > 0 THEN EarlyError(ps, map, InvalidState)
    ELSE
    LET current_entry == GetCurrentEntry(doc, list, idx)
    IN
    IF IsSome(current_entry) /\ Unwrap(current_entry) = key
    THEN LET ps1 == PromiseNew(ps)
             id == NewId(ps)
         IN Effect(ResolveNative(ps1, id, EntryValue(key)), map,
                   Returned("resolved", id, id, ""), FALSE, "")
    ELSE
    LET existing == MapGet(map, key)
    IN
    IF IsSome(existing)
    THEN LET d == method_tracker_derived_result(ps, Unwrap(existing))
         IN Effect(d.promises, map, d.result, FALSE, "")
    ELSE
    LET added == add_an_upcoming_traverse_api_method_tracker(ps, map, key)
    IN
    IF added.panicked
    THEN Effect(added.promises, added.map, Panic("api_method_tracker.unwrap()"), TRUE, "")
    ELSE IF answer = "no_entry"
    THEN Effect(added.promises, added.map, Panic("target_she.unwrap()"), TRUE, "")
    ELSE IF answer = "no_browsing_context"
    THEN EarlyError(added.promises, added.map, InvalidState)
    ELSE IF answer = "is_active_entry"
    THEN EarlyError(added.promises, added.map, InvalidState)
    ELSE IF answer = "step_pending"
    THEN EarlyError(added.promises, added.map, InvalidState)
    ELSE \* document.apply_history_step(step, ..) = answer; every result arm is empty
    LET d == method_tracker_derived_result(added.promises, added.tracker)
    IN Effect(d.promises, added.map, d.result, FALSE, answer)

\* ------------------------------------------------------------------ inputs
\* USVString arguments of Navigate and how ServoUrl::parse_with_base takes them.
Urls == {"https://example.org/next", "javascript:void(0)", "https://[bad"}
ParseWithBaseOk(url) == url # "https://[bad"
Scheme(url) == IF url = "javascript:void(0)" THEN "javascript" ELSE "https"
NavigationHistoryBehavior == {"auto", "push", "replace"}

Keys == 1..MaxKey

\* Keys a caller may pass: those entries can have and one no entry has.
AbsentKey == MaxKey + 1
KeyArguments == Keys \cup {AbsentKey}

\* Entry lists: distinct navigation API keys, here in increasing key order.
Increasing(list) ==
    \A i \in 1..(Len(list) - 1) : list[i] < list[i + 1]

EntryLists == {l \in UNION {[1..n -> Keys] : n \in 0..MaxEntries} : Increasing(l)}

Documents ==
    [fully_active : BOOLEAN, unload_counter : 0..1, initial_about_blank : BOOLEAN,
     opaque_origin : BOOLEAN]

\* delegated: the key handed to perform_a_navigation_api_traversal, if the call
\* got that far; value: the entry list or entry a getter returned.
NoCall == [op |-> "none", key |-> 0, url |-> "", history |-> "",
           ret |-> Returned("none", NoPromise, NoPromise, ""), applied |-> "",
           delegated |-> None, value |-> <<>>]

Call(op, key, url, history, ret, applied) ==
    [op |-> op, key |-> key, url |-> url, history |-> history, ret |-> ret,
     applied |-> applied, delegated |-> None, value |-> <<>>]

\* Promises some tracker or the returned result still refers to.
TrackerPromises(t) == {t.committed_promise, t.finished_promise}

LivePromises(slot, map, ret) ==
    (IF IsSome(slot) THEN TrackerPromises(Unwrap(slot)) ELSE {})
    \cup UNION {TrackerPromises(map[i].value) : i \in 1..Len(map)}
    \cup ({ret.committed, ret.finished} \ {NoPromise})

Restrict(f, S) == [x \in (DOMAIN f) \cap S |-> f[x]]

\* ------------------------------------------------------------------ state
\* The entry list and the current entry index are filled in by the session
\* history update of the window, which is not part of navigation.rs: the
\* Navigation object is taken in any state that update can leave, an entry
\* list with distinct keys and an index that is absent or within the list.
\* Both tracker structures start empty, as new_inherited leaves them.
NavInit ==
    /\ entry_list \in EntryLists
    /\ current_entry_index \in {None} \cup {Some(i) : i \in 0..(Len(entry_list) - 1)}
    /\ upcoming_non_traverse_method_tracker = None
    /\ upcoming_traverse_method_tracker = <<>>
    /\ promises = <<>>
    /\ document \in Documents
    /\ aborted = FALSE
    /\ last = NoCall

NavIdle ==
    /\ entry_list = <<>>
    /\ current_entry_index = None
    /\ upcoming_non_traverse_method_tracker = None
    /\ upcoming_traverse_method_tracker = <<>>
    /\ promises = <<>>
    /\ document = [fully_active |-> TRUE, unload_counter |-> 0,
                   initial_about_blank |-> FALSE, opaque_origin |-> FALSE]
    /\ aborted = FALSE
    /\ last = NoCall

\* A call leaves: the tracker structures, the promises still referred to,
\* whether the thread survived, and the record of the call.
Finish(op, key, url, history, eff, slot) ==
    /\ upcoming_traverse_method_tracker' = eff.map
    /\ upcoming_non_traverse_method_tracker' = slot
    /\ promises' = Restrict(eff.promises, LivePromises(slot, eff.map, eff.result))
    /\ aborted' = eff.panicked
    /\ last' = [Call(op, key, url, history, eff.result, eff.applied)
                    EXCEPT !.delegated = IF "delegated" \in DOMAIN eff
                                         THEN eff.delegated ELSE None,
                           !.value = IF "value" \in DOMAIN eff THEN eff.value ELSE <<>>]
    /\ UNCHANGED <<entry_list, current_entry_index, document, stepVars, queueVars, domVars>>

Here == upcoming_traverse_method_tracker
Slot == upcoming_non_traverse_method_tracker

\* Navigate
NavigateEffect(url, history) ==
    IF ~ParseWithBaseOk(url) THEN EarlyError(promises, Here, Syntax)
    ELSE IF history = "push" /\ (Scheme(url) = "javascript" \/ document.initial_about_blank)
    THEN EarlyError(promises, Here, NotSupported)
    ELSE IF ~document.fully_active THEN EarlyError(promises, Here, InvalidState)
    ELSE IF document.unload_counter > 0 THEN EarlyError(promises, Here, InvalidState)
    ELSE EarlyError(promises, Here, Syntax)

Navigate(url, history) ==
    /\ ~aborted
    /\ Finish("Navigate", 0, url, history, NavigateEffect(url, history), Slot)

\* Reload
Reload ==
    /\ ~aborted
    /\ IF ~document.fully_active
       THEN Finish("Reload", 0, "", "",
                   Effect(promises, Here, Returned("throw", NoPromise, NoPromise, InvalidState),
                          FALSE, ""), Slot)
       ELSE LET m == maybe_set_the_upcoming_non_traverse_api_method_tracker(
                         promises, document, Slot)
                d == method_tracker_derived_result(m.promises, m.tracker)
            IN Finish("Reload", 0, "", "",
                      Effect(d.promises, Here, d.result, FALSE, ""), m.slot)

\* A call of perform_a_navigation_api_traversal on the present state, with
\* the key it was given.
Perform(key, answer) ==
    perform_a_navigation_api_traversal(promises, Here, document, entry_list,
                                       current_entry_index, key, answer)
    @@ [delegated |-> Some(key)]

\* perform_a_navigation_api_traversal taken on its own, for any key
PerformTraversal(key, answer) ==
    /\ ~aborted
    /\ Finish("perform_a_navigation_api_traversal", key, "", "", Perform(key, answer), Slot)

\* TraverseTo; the key argument is never read.
TraverseToEffect(key, answer) ==
    IF ~IsSome(current_entry_index) THEN EarlyError(promises, Here, InvalidState)
    ELSE LET i == Unwrap(current_entry_index)
         IN IF i < 1 \/ i = Len(entry_list) THEN EarlyError(promises, Here, InvalidState)
            ELSE LET entry == VecGet(entry_list, i + 1)
                 IN IF IsSome(entry) THEN Perform(Unwrap(entry), answer)
                    ELSE EarlyError(promises, Here, InvalidState)

TraverseTo(key, answer) ==
    /\ ~aborted
    /\ Finish("TraverseTo", key, "", "", TraverseToEffect(key, answer), Slot)

\* Back traversing to the current entry itself.
BackEffect_Current(answer) ==
    IF ~IsSome(current_entry_index) THEN EarlyError(promises, Here, InvalidState)
    ELSE LET i == Unwrap(current_entry_index)
         IN IF i < 1 THEN EarlyError(promises, Here, InvalidState)
            ELSE LET entry == VecGet(entry_list, i)
                 IN IF IsSome(entry) THEN Perform(Unwrap(entry), answer)
                    ELSE EarlyError(promises, Here, InvalidState)

\* Back
BackEffect(answer) ==
    IF ~IsSome(current_entry_index) THEN EarlyError(promises, Here, InvalidState)
    ELSE LET i == Unwrap(current_entry_index)
         IN IF i < 1 THEN EarlyError(promises, Here, InvalidState)
            ELSE LET entry == VecGet(entry_list, i - 1)
                 IN IF IsSome(entry) THEN Perform(Unwrap(entry), answer)
                    ELSE EarlyError(promises, Here, InvalidState)

Back(answer) ==
    /\ ~aborted
    /\ Finish("Back", 0, "", "", BackEffect(answer), Slot)

\* Forward
ForwardEffect(answer) ==
    IF ~IsSome(current_entry_index) THEN EarlyError(promises, Here, InvalidState)
    ELSE LET i == Unwrap(current_entry_index)
         IN IF i < 1 \/ i = Len(entry_list) THEN EarlyError(promises, Here, InvalidState)
            ELSE LET entry == VecGet(entry_list, i + 1)
                 IN IF IsSome(entry) THEN Perform(Unwrap(entry), answer)
                    ELSE EarlyError(promises, Here, InvalidState)

Forward(answer) ==
    /\ ~aborted
    /\ Finish("Forward", 0, "", "", ForwardEffect(answer), Slot)

BoolResult(b) == [Returned("bool", NoPromise, NoPromise, "") EXCEPT !.flag = b]

CallCanGoBack ==
    /\ ~aborted
    /\ Finish("CanGoBack", 0, "", "",
              Effect(promises, Here, BoolResult(CanGoBack(document, current_entry_index)),
                     FALSE, ""), Slot)

CallCanGoForward ==
    /\ ~aborted
    /\ Finish("CanGoForward", 0, "", "",
              Effect(promises, Here,
                     BoolResult(CanGoForward(document, entry_list, current_entry_index)),
                     FALSE, ""), Slot)

\* Entries
CallEntries ==
    /\ ~aborted
    /\ Finish("Entries", 0, "", "",
              Effect(promises, Here, Returned("list", NoPromise, NoPromise, ""), FALSE, "")
              @@ [value |-> Entries(document, entry_list)], Slot)

\* GetCurrentEntry
CallGetCurrentEntry ==
    /\ ~aborted
    /\ Finish("GetCurrentEntry", 0, "", "",
              Effect(promises, Here, Returned("entry", NoPromise, NoPromise, ""), FALSE, "")
              @@ [value |-> GetCurrentEntry(document, entry_list, current_entry_index)],
              Slot)

\* UpdateCurrentEntry
UpdateCurrentEntry ==
    /\ ~aborted
    /\ LET current == GetCurrentEntry(document, entry_list, current_entry_index)
       IN Finish("UpdateCurrentEntry", 0, "", "",
                 Effect(promises, Here,
                        IF ~IsSome(current)
                        THEN Returned("throw", NoPromise, NoPromise, InvalidState)
                        ELSE Returned("ok", NoPromise, NoPromise, ""),
                        FALSE, ""), Slot)

\* The Document collaborator answers only a call that asks it: one that gets
\* as far as the search of its session history entries, where the answer
\* "no_entry" makes it stop.
NotAsked == "not_asked"

Answers(probe) ==
    IF probe.result = Panic("target_she.unwrap()") THEN DocumentAnswers ELSE {NotAsked}

NavNext ==
    \/ Reload
    \/ \E url \in Urls, history \in NavigationHistoryBehavior : Navigate(url, history)
    \/ \E key \in KeyArguments :
          \E answer \in Answers(TraverseToEffect(key, "no_entry")) : TraverseTo(key, answer)
    \/ \E answer \in Answers(BackEffect("no_entry")) : Back(answer)
    \/ \E answer \in Answers(ForwardEffect("no_entry")) : Forward(answer)
    \/ \E key \in KeyArguments :
          \E answer \in Answers(Perform(key, "no_entry")) : PerformTraversal(key, answer)
    \/ CallCanGoBack
    \/ CallCanGoForward
    \/ CallEntries
    \/ CallGetCurrentEntry
    \/ UpdateCurrentEntry

\* ------------------------------------------------------------------
\* Session history steps (constellation/navigable.rs)

\* SessionHistoryEntryStep
Pending == None
Integer(i) == Some(i)

Steps == {Pending} \cup {Integer(i) : i \in 0..MaxStep}

\* A session history entry: its step and the entries of the nested histories
\* of its document state.
NestedEntries == {<<>>} \cup {<<[step |-> st, nested |-> <<>>]>> : st \in Steps}
SessionHistoryEntries == [step : Steps, nested : NestedEntries]

RECURSIVE FlattenNested(_)
FlattenNested(entries) ==
    IF entries = <<>> THEN <<>>
    ELSE Head(entries).nested \o FlattenNested(Tail(entries))

\* get_all_used_history_steps, as drafted in the comments of its body: the
\* integer steps of the entries (a BTreeSet), and the entries of every nested
\* history appended to the entry list.
get_all_used_history_steps(entries) ==
    [steps |-> {Unwrap(entries[i].step) : i \in {j \in 1..Len(entries) : IsSome(entries[j].step)}},
     entries |-> entries \o FlattenNested(entries)]

Greatest(S) == CHOOSE x \in S : \A y \in S : y <= x

\* get_the_used_step with the range read from its front.
get_the_used_step_Front(steps, step) ==
    LET range == {x \in steps : x <= step}
    IN IF range = {} THEN 0 ELSE CHOOSE x \in range : \A y \in range : x <= y

\* get_the_used_step (a draft kept in comments):
\* steps.range(..=step).next_back().cloned().unwrap_or(0)
get_the_used_step(steps, step) ==
    LET range == {x \in steps : x <= step}
    IN IF range = {} THEN 0 ELSE Greatest(range)

NoUsed == [called |-> FALSE, step |-> 0, steps |-> {}, used |-> 0]

\* Option<Weak<Navigable>>: no parent, or a weak reference whose navigable
\* is still there or has been dropped.
Parents == {None, Some("alive"), Some("dropped")}

\* is_top_level testing that the parent is present.
is_top_level_IsSome(p) == IsSome(p)

\* is_top_level
is_top_level(p) == ~IsSome(p)

NoTopLevel == [called |-> FALSE, result |-> FALSE]

StepsIdle ==
    /\ session_history_entries = <<>>
    /\ used = NoUsed
    /\ parent = None
    /\ top_level = NoTopLevel

StepsInit ==
    /\ session_history_entries \in UNION {[1..n -> SessionHistoryEntries] : n \in 0..MaxShes}
    /\ used = NoUsed
    /\ parent \in Parents
    /\ top_level = NoTopLevel

GetTheUsedStep(step) ==
    LET all == get_all_used_history_steps(session_history_entries)
    IN /\ Len(all.entries) <= MaxRecorded
       /\ session_history_entries' = all.entries
       /\ used' = [called |-> TRUE, step |-> step, steps |-> all.steps,
                   used |-> get_the_used_step(all.steps, step)]
       /\ UNCHANGED <<parent, top_level, navVars, queueVars, domVars>>

\* is_top_level
IsTopLevel ==
    /\ top_level' = [called |-> TRUE, result |-> is_top_level(parent)]
    /\ UNCHANGED <<session_history_entries, used, parent, navVars, queueVars, domVars>>

StepsNext ==
    \/ \E step \in 0..(MaxStep + 1) : GetTheUsedStep(step)
    \/ IsTopLevel

\* ------------------------------------------------------------------
\* ParallelQueueImpl (script/navigable.rs)

\* Vec::pop with the first element taken instead of the last.
VecPop_Front(q) == [item |-> Head(q), rest |-> Tail(q)]

\* Vec::pop handing out the last element without removing it.
VecPop_Peek(q) == [item |-> q[Len(q)], rest |-> q]

\* Vec::pop: the last element
VecPop(q) == [item |-> q[Len(q)], rest |-> SubSeq(q, 1, Len(q) - 1)]

QueueIdle ==
    /\ queue = <<>>
    /\ queue_lock = "free"
    /\ is_running = FALSE
    /\ worker = "unstarted"
    /\ task = 0
    /\ client = "idle"
    /\ enqueued = 0
    /\ log = <<>>

\* After ParallelQueueImpl::start(): the flag is set and the worker spawned.
QueueInit ==
    /\ queue = <<>>
    /\ queue_lock = "free"
    /\ is_running = TRUE
    /\ worker = "lock"
    /\ task = 0
    /\ client = "idle"
    /\ enqueued = 0
    /\ log = <<>>

\* ---- process_tasks
\* `let mut guard = queue.lock().unwrap();` at the top of the loop
WorkerLock ==
    /\ worker = "lock"
    /\ queue_lock = "free"
    /\ queue_lock' = "worker"
    /\ worker' = "while"
    /\ UNCHANGED <<queue, is_running, task, client, enqueued, log, navVars, stepVars, domVars>>

\* `while guard.is_empty() && *is_running.lock().unwrap()`
WorkerWhile ==
    /\ worker = "while"
    /\ worker' = IF queue = <<>> /\ is_running THEN "wait" ELSE "if_stopped"
    /\ UNCHANGED <<queue, queue_lock, is_running, task, client, enqueued, log, navVars, stepVars, domVars>>

\* `condvar.wait(guard)`: the mutex is released and the thread blocks
WorkerWait ==
    /\ worker = "wait"
    /\ queue_lock' = "free"
    /\ worker' = "blocked"
    /\ UNCHANGED <<queue, is_running, task, client, enqueued, log, navVars, stepVars, domVars>>

\* Condvar::wait may return without a notification.
SpuriousWakeup ==
    /\ worker = "blocked"
    /\ worker' = "woken"
    /\ UNCHANGED <<queue, queue_lock, is_running, task, client, enqueued, log, navVars, stepVars, domVars>>

\* wait returns once the mutex is reacquired
WorkerWoken ==
    /\ worker = "woken"
    /\ queue_lock = "free"
    /\ queue_lock' = "worker"
    /\ worker' = "while"
    /\ UNCHANGED <<queue, is_running, task, client, enqueued, log, navVars, stepVars, domVars>>

\* `if !*is_running.lock().unwrap() { break; }`
WorkerIfStopped ==
    /\ worker = "if_stopped"
    /\ IF ~is_running
       THEN worker' = "exited" /\ queue_lock' = "free"
       ELSE worker' = "pop" /\ UNCHANGED queue_lock
    /\ UNCHANGED <<queue, is_running, task, client, enqueued, log, navVars, stepVars, domVars>>

\* `while let Some(task) = guard.pop()` and `drop(guard)`
WorkerPop ==
    /\ worker = "pop"
    /\ IF queue = <<>>
       THEN /\ worker' = "lock"
            /\ UNCHANGED <<queue, task>>
       ELSE /\ queue' = VecPop(queue).rest
            /\ task' = VecPop(queue).item
            /\ worker' = "run"
    /\ queue_lock' = "free"
    /\ UNCHANGED <<is_running, client, enqueued, log, navVars, stepVars, domVars>>

\* `task()` begins
WorkerRun ==
    /\ worker = "run"
    /\ log' = Append(log, [event |-> "start", task |-> task])
    /\ worker' = "running"
    /\ UNCHANGED <<queue, queue_lock, is_running, task, client, enqueued, navVars, stepVars, domVars>>

\* `task()` returns
WorkerRan ==
    /\ worker = "running"
    /\ log' = Append(log, [event |-> "finish", task |-> task])
    /\ worker' = "relock"
    /\ UNCHANGED <<queue, queue_lock, is_running, task, client, enqueued, navVars, stepVars, domVars>>

\* `guard = queue.lock().unwrap();` after the task
WorkerRelock ==
    /\ worker = "relock"
    /\ queue_lock = "free"
    /\ queue_lock' = "worker"
    /\ worker' = "pop"
    /\ UNCHANGED <<queue, is_running, task, client, enqueued, log, navVars, stepVars, domVars>>

\* ---- enqueue: lock, push, drop(guard)
EnqueuePush ==
    /\ client \in {"idle", "stopped"}
    /\ enqueued < MaxTasks
    /\ queue_lock = "free"
    /\ queue' = Append(queue, enqueued + 1)
    /\ enqueued' = enqueued + 1
    /\ client' = IF client = "idle" THEN "notify_one" ELSE "notify_one_stopped"
    /\ UNCHANGED <<queue_lock, is_running, worker, task, log, navVars, stepVars, domVars>>

\* enqueue: condvar.notify_one()
EnqueueNotify ==
    /\ client \in {"notify_one", "notify_one_stopped"}
    /\ worker' = IF worker = "blocked" THEN "woken" ELSE worker
    /\ client' = IF client = "notify_one" THEN "idle" ELSE "stopped"
    /\ UNCHANGED <<queue, queue_lock, is_running, task, enqueued, log, navVars, stepVars, domVars>>

\* ---- stop: `*is_running = false`
StopClear ==
    /\ client = "idle"
    /\ is_running' = FALSE
    /\ client' = "notify_all"
    /\ log' = Append(log, [event |-> "stop", task |-> enqueued])
    /\ UNCHANGED <<queue, queue_lock, worker, task, enqueued, navVars, stepVars, domVars>>

\* stop: condvar.notify_all()
StopNotify ==
    /\ client = "notify_all"
    /\ worker' = IF worker = "blocked" THEN "woken" ELSE worker
    /\ client' = "join"
    /\ UNCHANGED <<queue, queue_lock, is_running, task, enqueued, log, navVars, stepVars, domVars>>

\* stop: handle.join() returns once the worker has left process_tasks
StopJoin ==
    /\ client = "join"
    /\ worker = "exited"
    /\ client' = "stopped"
    /\ UNCHANGED <<queue, queue_lock, is_running, worker, task, enqueued, log, navVars, stepVars, domVars>>

QueueNext ==
    \/ WorkerLock
    \/ WorkerWhile
    \/ WorkerWait
    \/ SpuriousWakeup
    \/ WorkerWoken
    \/ WorkerIfStopped
    \/ WorkerPop
    \/ WorkerRun
    \/ WorkerRan
    \/ WorkerRelock
    \/ EnqueuePush
    \/ EnqueueNotify
    \/ StopClear
    \/ StopNotify
    \/ StopJoin

\* ------------------------------------------------------------------
\* Navigable (script/navigable.rs)

\* A Document, by its URL.
DocumentUrls == {"https://example.org/", "https://example.org/#top", "about:blank"}

\* DocumentState
DocumentStates ==
    [document : {None} \cup {Some(url) : url \in DocumentUrls}, reload_pending : BOOLEAN]

\* impl Default for SessionHistoryEntry
DefaultSessionHistoryEntry ==
    [step |-> Pending, url |-> "about:blank",
     document_state |-> [document |-> None, reload_pending |-> FALSE],
     scroll_restoration_mode |-> "Auto"]

\* impl Convert<SessionHistoryEntry> for DocumentState; the caller has made
\* sure of the document.
convert(document_state) ==
    [step |-> Pending, url |-> Unwrap(document_state.document),
     document_state |-> [document |-> document_state.document, reload_pending |-> FALSE],
     scroll_restoration_mode |-> "Auto"]

\* Navigable::initialize leaving the active session history entry as it was.
initialize_CurrentOnly(nav, rcs, document_state, to_parent) ==
    IF ~IsSome(document_state.document)
    THEN [panicked |-> TRUE, navigable |-> nav, rc_entries |-> rcs]
    ELSE LET entry == Len(rcs) + 1
         IN [panicked |-> FALSE,
             rc_entries |-> Append(rcs, convert(document_state)),
             navigable |-> [nav EXCEPT !.current_session_history_entry = entry,
                                       !.parent = to_parent]]

\* Navigable::initialize; entry is the new Rc. Without a document the
\* debug_assert (or the expect in convert) panics.
initialize(nav, rcs, document_state, to_parent) ==
    IF ~IsSome(document_state.document)
    THEN [panicked |-> TRUE, navigable |-> nav, rc_entries |-> rcs]
    ELSE LET entry == Len(rcs) + 1
         IN [panicked |-> FALSE,
             rc_entries |-> Append(rcs, convert(document_state)),
             navigable |-> [nav EXCEPT !.current_session_history_entry = entry,
                                       !.active_session_history_entry = entry,
                                       !.parent = to_parent]]

NoInitialize ==
    [called |-> FALSE, document_state |-> [document |-> None, reload_pending |-> FALSE],
     parent |-> None, panicked |-> FALSE]

NavigableIdle ==
    /\ navigable = [parent |-> None, current_session_history_entry |-> 1,
                    active_session_history_entry |-> 1]
    /\ rc_entries = <<DefaultSessionHistoryEntry>>
    /\ traversable = [current_session_history_step |-> 0, session_history_entries |-> <<>>]
    /\ initialized = NoInitialize

\* A navigable as constructed, before initialize.
NavigableInit ==
    /\ navigable \in [parent : Parents, current_session_history_entry : {1},
                       active_session_history_entry : {1}]
    /\ rc_entries = <<DefaultSessionHistoryEntry>>
    /\ traversable = [current_session_history_step |-> 0, session_history_entries |-> <<>>]
    /\ initialized = NoInitialize

Initialize(document_state, to_parent) ==
    /\ ~initialized.panicked
    /\ Len(rc_entries) <= MaxInitialized
    /\ LET done == initialize(navigable, rc_entries, document_state, to_parent)
       IN /\ navigable' = done.navigable
          /\ rc_entries' = done.rc_entries
          /\ initialized' = [called |-> TRUE, document_state |-> document_state,
                             parent |-> to_parent, panicked |-> done.panicked]
    /\ UNCHANGED <<traversable, navVars, stepVars, queueVars, entriesVars, signalVars, eventVars>>

NavigableNext ==
    \E document_state \in DocumentStates, to_parent \in Parents :
        Initialize(document_state, to_parent)

\* ------------------------------------------------------------------
\* SessionHistoryEntry (shared/script/session_history.rs) and the target
\* history entry (constellation/navigable.rs)

DocumentIds == 1..MaxDocument
NavigationApiStates == {None, Some("state")}

\* SessionHistoryEntry: the fields the operations below read or write.
HistoryEntries ==
    [navigation_api_key : 1..MaxUuids, step : Steps,
     navigation_api_state : NavigationApiStates, document_id : DocumentIds]

\* SessionHistoryEntry::new: a pending step, no state, a fresh v4 UUID.
new(document_id, uuid) ==
    [navigation_api_key |-> uuid, step |-> Pending,
     navigation_api_state |-> None, document_id |-> document_id]

\* set_step
set_step(entry, step) == [entry EXCEPT !.step = Integer(step)]

\* set_navigation_api_state
set_navigation_api_state(entry, state) ==
    [entry EXCEPT !.navigation_api_state = Some(state)]

\* PartialEq for SessionHistoryEntry
eq(a, b) == a.navigation_api_key = b.navigation_api_key

\* Ord for SessionHistoryEntry: the order of the document ids.
cmp(a, b) ==
    IF a.document_id < b.document_id THEN "Less"
    ELSE IF a.document_id = b.document_id THEN "Equal" ELSE "Greater"

\* get_session_history_entries (a draft kept in comments): the list as a
\* BTreeSet<SessionHistoryEntry>.  The set iterates in the order of cmp and
\* holds one entry of those that compare Equal; the draft does not say how
\* the Vec becomes the set, so which one it holds is open.  A set is given
\* as the index of the entry held for each document id.
get_session_history_entries(list) ==
    LET ids == {list[i].document_id : i \in 1..Len(list)}
    IN {held \in [ids -> 1..Len(list)] :
           \A id \in ids : cmp(list[held[id]], [document_id |-> id]) = "Equal"}

\* get_the_target_history_entry (a draft kept in comments):
\* entries.iter().filter(Integer(i) => i <= step).last().expect(..).clone()
get_the_target_history_entry(list, held, step) ==
    LET passing == {id \in DOMAIN held :
                       /\ IsSome(list[held[id]].step)
                       /\ Unwrap(list[held[id]].step) <= step}
    IN IF passing = {} THEN [panicked |-> TRUE, entry |-> None]
       ELSE [panicked |-> FALSE, entry |-> Some(list[held[Greatest(passing)]])]

NoTarget == [called |-> FALSE, step |-> 0, panicked |-> FALSE, entry |-> None]

EntriesIdle ==
    /\ history_entries = <<>>
    /\ created = None
    /\ uuids = 0
    /\ target = NoTarget

\* An entry list as the standard keeps it: the keys distinct, the steps set
\* in the order of the list, the entry appended last possibly still pending.
IsEntryList(list) ==
    /\ \A i \in 1..Len(list) : list[i].navigation_api_key = i
    /\ \A i \in 1..(Len(list) - 1) : IsSome(list[i].step)
    /\ \A i, j \in 1..Len(list) :
           (i < j /\ IsSome(list[j].step)) => Unwrap(list[i].step) <= Unwrap(list[j].step)

EntriesInit ==
    /\ history_entries \in {list \in UNION {[1..n -> HistoryEntries] : n \in 0..MaxHistory} :
                                IsEntryList(list)}
    /\ created = None
    /\ uuids = Len(history_entries)
    /\ target = NoTarget

\* SessionHistoryEntry::new
NewEntry(document_id) ==
    /\ ~target.panicked
    /\ uuids < MaxUuids
    /\ uuids' = uuids + 1
    /\ created' = Some(new(document_id, uuids + 1))
    /\ UNCHANGED <<history_entries, target, navVars, stepVars, queueVars, navigableVars, signalVars, eventVars>>

\* set_step on an entry of the list
SetStep(i, step) ==
    /\ ~target.panicked
    /\ i \in 1..Len(history_entries)
    /\ history_entries' = [history_entries EXCEPT ![i] = set_step(@, step)]
    /\ UNCHANGED <<created, uuids, target, navVars, stepVars, queueVars, navigableVars, signalVars, eventVars>>

\* set_navigation_api_state on an entry of the list
SetNavigationApiState(i, state) ==
    /\ ~target.panicked
    /\ i \in 1..Len(history_entries)
    /\ history_entries' = [history_entries EXCEPT ![i] = set_navigation_api_state(@, state)]
    /\ UNCHANGED <<created, uuids, target, navVars, stepVars, queueVars, navigableVars, signalVars, eventVars>>

\* get_the_target_history_entry
GetTheTargetHistoryEntry(step) ==
    /\ ~target.panicked
    /\ \E held \in get_session_history_entries(history_entries) :
           LET got == get_the_target_history_entry(history_entries, held, step)
           IN target' = [called |-> TRUE, step |-> step,
                         panicked |-> got.panicked, entry |-> got.entry]
    /\ UNCHANGED <<history_entries, created, uuids, navVars, stepVars, queueVars, navigableVars, signalVars, eventVars>>

EntriesNext ==
    \/ \E document_id \in DocumentIds : NewEntry(document_id)
    \/ \E i \in 1..MaxHistory, step \in 0..MaxStep : SetStep(i, step)
    \/ \E i \in 1..MaxHistory : SetNavigationApiState(i, "state")
    \/ \E step \in 0..MaxStep : GetTheTargetHistoryEntry(step)

\* ------------------------------------------------------------------
\* AbortSignal (script/dom/abortsignal.rs)

\* An abort reason: undefined, a value given by script, or the "AbortError"
\* DOMException made when none is given.
UndefinedValue == "undefined"
GivenReasons == {UndefinedValue, "r1"}

\* What the listener of an abort event does: nothing, or AbortController's
\* abort() on some signal.
ListenerReason == UndefinedValue

\* AbortSignal::new_inherited; `live` tells whether a WeakRef to the signal
\* still roots, `controller` whether an AbortController holds the signal.
new_inherited(dependent) ==
    [reason |-> UndefinedValue, abort_algorithms |-> <<>>, source_signals |-> <<>>,
     dependent_signals |-> <<>>, dependent |-> dependent, live |-> TRUE,
     controller |-> FALSE]

\* Aborted
Aborted(signal) == signal.reason # UndefinedValue

\* add_abort_algorithms without the test of Aborted.
add_abort_algorithms_Always(signal, alg) ==
    [signal EXCEPT !.abort_algorithms = @ \o alg]

\* add_abort_algorithms
add_abort_algorithms(signal, alg) ==
    IF ~Aborted(signal) THEN [signal EXCEPT !.abort_algorithms = @ \o alg] ELSE signal

SeqToSet(seq) == {seq[i] : i \in 1..Len(seq)}

\* AbortAlgorithm::exec on every algorithm drained from the list.
exec(algs, drained) ==
    [a \in DOMAIN algs |->
        IF a \in SeqToSet(drained) THEN [algs[a] EXCEPT !.runs = @ + 1] ELSE algs[a]]

\* signal_abort on signal s of the heap `st` (the signals and the algorithms).
\* `script` gives, for each signal, the signal its abort listener aborts.
RECURSIVE signal_abort(_, _, _, _)
RECURSIVE signal_abort_dependents(_, _, _, _)
signal_abort(st, s, reason, script) ==
    IF Aborted(st.signals[s]) THEN st
    ELSE LET given == IF reason = UndefinedValue THEN AbortError ELSE reason
             drained == st.signals[s].abort_algorithms
             run == [signals |-> [st.signals EXCEPT ![s].reason = given,
                                                     ![s].abort_algorithms = <<>>],
                     algorithms |-> exec(st.algorithms, drained)]
             fired == IF IsSome(script[s])
                      THEN signal_abort(run, Unwrap(script[s]), ListenerReason, script)
                      ELSE run
         IN signal_abort_dependents(fired, fired.signals[s].dependent_signals, given, script)

\* Step 6 of signal_abort: the loop over the dependent signals that root.
signal_abort_dependents(st, dependent_signals, reason, script) ==
    IF dependent_signals = <<>> THEN st
    ELSE LET signal == Head(dependent_signals)
             next == IF st.signals[signal].live
                     THEN signal_abort(st, signal, reason, script)
                     ELSE st
         IN signal_abort_dependents(next, Tail(dependent_signals), reason, script)

\* Step 4 of create_dependent_signal: the sources the signals bring, in order.
RECURSIVE SourceSignals(_, _)
SourceSignals(sigs, args) ==
    IF args = <<>> THEN <<>>
    ELSE LET signal == Head(args)
             own == IF ~sigs[signal].dependent THEN <<signal>>
                    ELSE SelectSeq(sigs[signal].source_signals, LAMBDA x : sigs[x].live)
         IN own \o SourceSignals(sigs, Tail(args))

Occurrences(seq, x) == Cardinality({i \in 1..Len(seq) : seq[i] = x})

\* create_dependent_signal: the signals with the result appended.
create_dependent_signal(sigs, args) ==
    LET result == Len(sigs) + 1
        aborted_args == SelectSeq(args, LAMBDA x : Aborted(sigs[x]))
        sources == SourceSignals(sigs, args)
    IN IF aborted_args # <<>>
       THEN [panicked |-> FALSE,
             signals |-> Append(sigs, [new_inherited(FALSE) EXCEPT
                                          !.reason = sigs[Head(aborted_args)].reason])]
       ELSE IF \E x \in SeqToSet(sources) :
                  /\ \E a \in SeqToSet(args) :
                         sigs[a].dependent /\ x \in SeqToSet(sigs[a].source_signals)
                  /\ (Aborted(sigs[x]) \/ sigs[x].dependent)
       THEN [panicked |-> TRUE, signals |-> sigs]
       ELSE [panicked |-> FALSE,
             signals |->
                 Append([x \in DOMAIN sigs |->
                            [sigs[x] EXCEPT !.dependent_signals =
                                 @ \o [i \in 1..Occurrences(sources, x) |-> result]]],
                        [new_inherited(TRUE) EXCEPT !.source_signals = sources])]

NoSignalCall == [op |-> "none", signal |-> 0, reason |-> UndefinedValue,
           silent |-> TRUE, panicked |-> FALSE]

SignalIdle ==
    /\ signals = <<>>
    /\ algorithms = <<>>
    /\ last_call = NoSignalCall
    /\ signal_calls = 0

Live == {x \in 1..Len(signals) : signals[x].live}

\* The signals held by an AbortController.
Controllers == {x \in Live : signals[x].controller}

\* AbortController::new
NewController ==
    /\ ~last_call.panicked
    /\ signal_calls < MaxSignalCalls
    /\ signal_calls' = signal_calls + 1
    /\ Len(signals) < MaxSignals
    /\ signals' = Append(signals, [new_inherited(FALSE) EXCEPT !.controller = TRUE])
    /\ last_call' = NoSignalCall
    /\ UNCHANGED <<algorithms, navVars, stepVars, queueVars, navigableVars, entriesVars, eventVars>>

\* AbortSignal::Abort
Abort(reason) ==
    /\ ~last_call.panicked
    /\ signal_calls < MaxSignalCalls
    /\ signal_calls' = signal_calls + 1
    /\ Len(signals) < MaxSignals
    /\ signals' = Append(signals, [new_inherited(FALSE) EXCEPT !.reason =
                                       IF reason = UndefinedValue THEN AbortError ELSE reason])
    /\ last_call' = NoSignalCall
    /\ UNCHANGED <<algorithms, navVars, stepVars, queueVars, navigableVars, entriesVars, eventVars>>

\* AbortSignal::Any
CallAny(args) ==
    /\ ~last_call.panicked
    /\ signal_calls < MaxSignalCalls
    /\ signal_calls' = signal_calls + 1
    /\ Len(signals) < MaxSignals
    /\ SeqToSet(args) \subseteq Live
    /\ LET made == create_dependent_signal(signals, args)
       IN /\ signals' = made.signals
          /\ last_call' = [NoSignalCall EXCEPT !.panicked = made.panicked]
    /\ UNCHANGED <<algorithms, navVars, stepVars, queueVars, navigableVars, entriesVars, eventVars>>

\* add_abort_algorithms with one new algorithm
AddAbortAlgorithms(s) ==
    /\ ~last_call.panicked
    /\ signal_calls < MaxSignalCalls
    /\ signal_calls' = signal_calls + 1
    /\ s \in Live
    /\ Len(algorithms) < MaxAlgorithms
    /\ algorithms' = Append(algorithms, [signal |-> s, runs |-> 0])
    /\ signals' = [signals EXCEPT ![s] = add_abort_algorithms(@, <<Len(algorithms) + 1>>)]
    /\ last_call' = NoSignalCall
    /\ UNCHANGED <<navVars, stepVars, queueVars, navigableVars, entriesVars, eventVars>>

\* AbortController::Abort: signal_abort on the signal of the controller.
\* The listeners call Abort on controllers as well.
SignalAbort(s, reason, script) ==
    /\ ~last_call.panicked
    /\ signal_calls < MaxSignalCalls
    /\ signal_calls' = signal_calls + 1
    /\ s \in Controllers
    /\ \A x \in DOMAIN script :
           IsSome(script[x]) => (x \in Live /\ Unwrap(script[x]) \in Controllers)
    /\ LET done == signal_abort([signals |-> signals, algorithms |-> algorithms],
                                s, reason, script)
       IN /\ signals' = done.signals
          /\ algorithms' = done.algorithms
    /\ last_call' = [NoSignalCall EXCEPT !.op = "signal_abort", !.signal = s, !.reason = reason,
                                    !.silent = \A x \in DOMAIN script : ~IsSome(script[x])]
    /\ UNCHANGED <<navVars, stepVars, queueVars, navigableVars, entriesVars, eventVars>>

\* The last reference to a dependent signal goes: the WeakRefs to it in the
\* dependent signals of its sources no longer root.
Drop(s) ==
    /\ ~last_call.panicked
    /\ signal_calls < MaxSignalCalls
    /\ signal_calls' = signal_calls + 1
    /\ s \in Live
    /\ signals[s].dependent
    /\ signals' = [signals EXCEPT ![s].live = FALSE]
    /\ last_call' = NoSignalCall
    /\ UNCHANGED <<algorithms, navVars, stepVars, queueVars, navigableVars, entriesVars, eventVars>>

\* The scripts with at most one abort listener.
Scripts ==
    {script \in [1..Len(signals) -> {None} \cup {Some(x) : x \in 1..Len(signals)}] :
        Cardinality({x \in DOMAIN script : IsSome(script[x])}) <= 1}

SignalNext ==
    \/ NewController
    \/ \E reason \in GivenReasons : Abort(reason)
    \/ \E args \in {<<x>> : x \in 1..MaxSignals}
                  \cup {<<x, y>> : x, y \in 1..MaxSignals} : CallAny(args)
    \/ \E s \in 1..MaxSignals : AddAbortAlgorithms(s)
    \/ \E s \in 1..MaxSignals, reason \in GivenReasons, script \in Scripts :
           SignalAbort(s, reason, script)
    \/ \E s \in 1..MaxSignals : Drop(s)

\* ------------------------------------------------------------------
\* NavigateEvent (script/dom/navigateevent.rs)

\* InterceptionState
InterceptionStates == {"none", "intercepted", "committed", "scrolled", "finished"}

NavigationTypes == {"push", "replace", "reload", "traverse"}
Behaviors == {"after-transition", "manual"}

\* NavigationInterceptOptions: each member may be missing.
NavigationInterceptOptions ==
    [handler : {None, Some("handler")},
     focusReset : {None} \cup {Some(x) : x \in Behaviors},
     scroll : {None} \cup {Some(x) : x \in Behaviors}]

Ok == "Ok"

\* perform_shared_checks
perform_shared_checks(ev) ==
    IF ~ev.fully_active THEN InvalidState
    ELSE IF ~ev.is_trusted THEN SecurityError
    ELSE IF ev.canceled THEN InvalidState
    ELSE Ok

\* process_scroll_behavior: the event, and what the Document was told.
process_scroll_behavior(ev) ==
    [event |-> [ev EXCEPT !.interception_state = "scrolled"],
     document |-> IF ev.navigation_type \in {"reload", "traverse"}
                  THEN [target_element |-> "set to None", scroll_fragment |-> Some("")]
                  ELSE [target_element |-> "kept", scroll_fragment |-> Some("")]]

\* Steps 5 to 8 of Intercept.
InterceptWith(ev, options) ==
    [ev EXCEPT
        !.interception_state = "intercepted",
        !.navigation_handler_list =
            IF IsSome(options.handler) THEN Append(@, Unwrap(options.handler)) ELSE @,
        !.focus_reset = IF IsSome(options.focusReset) THEN options.focusReset ELSE @,
        !.scroll_behavior = IF IsSome(options.scroll) THEN options.scroll ELSE @]

\* Intercept with the interception state written before the checks of
\* canIntercept and of the dispatch flag.
Intercept_StateFirst(ev, options) ==
    IF perform_shared_checks(ev) # Ok
    THEN [result |-> perform_shared_checks(ev), event |-> ev]
    ELSE IF ~ev.can_intercept
    THEN [result |-> SecurityError, event |-> [ev EXCEPT !.interception_state = "intercepted"]]
    ELSE IF ~ev.dispatching
    THEN [result |-> InvalidState, event |-> [ev EXCEPT !.interception_state = "intercepted"]]
    ELSE [result |-> Ok, event |-> InterceptWith(ev, options)]

\* Intercept.  The debug_assert of the state holds of every event the dispatch
\* flag and the shared checks let through (see NavigateEvents).
Intercept(ev, options) ==
    IF perform_shared_checks(ev) # Ok
    THEN [result |-> perform_shared_checks(ev), event |-> ev]
    ELSE IF ~ev.can_intercept THEN [result |-> SecurityError, event |-> ev]
    ELSE IF ~ev.dispatching THEN [result |-> InvalidState, event |-> ev]
    ELSE [result |-> Ok, event |-> InterceptWith(ev, options)]

NotScrolled == [target_element |-> "kept", scroll_fragment |-> None]

\* Scroll
Scroll(ev) ==
    IF perform_shared_checks(ev) # Ok
    THEN [result |-> perform_shared_checks(ev), event |-> ev, document |-> NotScrolled]
    ELSE IF ev.interception_state # "committed"
    THEN [result |-> InvalidState, event |-> ev, document |-> NotScrolled]
    ELSE [result |-> Ok, event |-> process_scroll_behavior(ev).event,
          document |-> process_scroll_behavior(ev).document]

\* A navigate event at some point of its life, no intercept options given so
\* far.  While a trusted event is being dispatched its interception state is
\* "none" or "intercepted" (the assertion of Intercept); the later states are
\* those of an event whose dispatch is over, or that script dispatches again,
\* which makes it untrusted.
NavigateEvents ==
    {ev \in [fully_active : BOOLEAN, is_trusted : BOOLEAN, canceled : BOOLEAN,
              can_intercept : BOOLEAN, dispatching : BOOLEAN,
              navigation_type : NavigationTypes,
              interception_state : InterceptionStates,
              navigation_handler_list : {<<>>},
              focus_reset : {None}, scroll_behavior : {None}] :
        (ev.dispatching /\ ev.is_trusted)
            => ev.interception_state \in {"none", "intercepted"}}

NoEventCall == [op |-> "none", result |-> Ok]

\* NavigateEvent::new_inherited with no flag set
EventIdle ==
    /\ navigate_event = [fully_active |-> FALSE, is_trusted |-> FALSE, canceled |-> FALSE,
                         can_intercept |-> FALSE, dispatching |-> FALSE,
                         navigation_type |-> "push", interception_state |-> "none",
                         navigation_handler_list |-> <<>>,
                         focus_reset |-> None, scroll_behavior |-> None]
    /\ scrolled_document = NotScrolled
    /\ event_call = NoEventCall

EventInit ==
    /\ navigate_event \in NavigateEvents
    /\ scrolled_document = NotScrolled
    /\ event_call = NoEventCall

\* Intercept
CallIntercept(options) ==
    /\ IsSome(options.handler) => Len(navigate_event.navigation_handler_list) < MaxHandlers
    /\ navigate_event' = Intercept(navigate_event, options).event
    /\ event_call' = [op |-> "Intercept", result |-> Intercept(navigate_event, options).result]
    /\ UNCHANGED <<scrolled_document, navVars, stepVars, queueVars, navigableVars,
                   entriesVars, signalVars>>

\* Scroll
CallScroll ==
    /\ navigate_event' = Scroll(navigate_event).event
    /\ scrolled_document' = IF Scroll(navigate_event).result = Ok
                            THEN Scroll(navigate_event).document
                            ELSE scrolled_document
    /\ event_call' = [op |-> "Scroll", result |-> Scroll(navigate_event).result]
    /\ UNCHANGED <<navVars, stepVars, queueVars, navigableVars, entriesVars, signalVars>>

EventNext ==
    \/ \E options \in NavigationInterceptOptions : CallIntercept(options)
    \/ CallScroll

DomIdle == NavigableIdle /\ EntriesIdle /\ SignalIdle /\ EventIdle

\* ------------------------------------------------------------------ specifications
Init == NavInit /\ StepsIdle /\ QueueIdle /\ DomIdle
Next == NavNext
Spec == Init /\ [][Next]_vars

InitSteps == StepsInit /\ NavIdle /\ QueueIdle /\ DomIdle
SpecSteps == InitSteps /\ [][StepsNext]_vars

InitQueue == QueueInit /\ NavIdle /\ StepsIdle /\ DomIdle
SpecQueue == InitQueue /\ [][QueueNext]_vars

InitNavigable ==
    NavigableInit /\ NavIdle /\ StepsIdle /\ QueueIdle /\ EntriesIdle /\ SignalIdle /\ EventIdle
SpecNavigable == InitNavigable /\ [][NavigableNext]_vars

InitEntries ==
    EntriesInit /\ NavIdle /\ StepsIdle /\ QueueIdle /\ NavigableIdle /\ SignalIdle /\ EventIdle
SpecEntries == InitEntries /\ [][EntriesNext]_vars

InitSignal ==
    SignalIdle /\ NavIdle /\ StepsIdle /\ QueueIdle /\ NavigableIdle /\ EntriesIdle /\ EventIdle
SpecSignal == InitSignal /\ [][SignalNext]_vars

InitEvent ==
    EventInit /\ NavIdle /\ StepsIdle /\ QueueIdle /\ NavigableIdle /\ EntriesIdle /\ SignalIdle
SpecEvent == InitEvent /\ [][EventNext]_vars

\* ================================================================== claims
Range(list) == {list[i] : i \in 1..Len(list)}
TraversalOps == {"Back", "Forward", "TraverseTo"}
EarlyInvalidState(ret) ==
    /\ ret.outcome = "early_error"
    /\ ret.error = InvalidState
    /\ promises[ret.committed] = [state |-> "rejected", value |-> ErrorValue(InvalidState)]
    /\ promises[ret.finished] = [state |-> "rejected", value |-> ErrorValue(InvalidState)]

\* C1: with entries and events enabled and current_entry_index = Some(i),
\* 0 <= i < len, CanGoForward() is false when i = len - 1 and true otherwise.
C1_CanGoForwardBoundary ==
    (/\ last.op = "CanGoForward"
     /\ ~has_entries_and_events_disabled(document)
     /\ IsSome(current_entry_index))
    => (last.ret.flag <=> Unwrap(current_entry_index) # Len(entry_list) - 1)

\* C2: with entries and events enabled, CanGoBack() is false when
\* current_entry_index is None or Some(0) and true for every Some(i), i > 0.
C2_CanGoBackBoundary ==
    (/\ last.op = "CanGoBack"
     /\ ~has_entries_and_events_disabled(document))
    => /\ last.ret.outcome = "bool"
       /\ (current_entry_index = None \/ current_entry_index = Some(0)) => ~last.ret.flag
       /\ (IsSome(current_entry_index) /\ Unwrap(current_entry_index) > 0) => last.ret.flag

C2_Witness ==
    /\ last.op = "CanGoBack"
    /\ ~has_entries_and_events_disabled(document)
    /\ current_entry_index = Some(2)
    /\ last.ret.flag

\* C3: once a traversal to key k has registered a tracker that is still in
\* the upcoming-traverse map, a second perform_a_navigation_api_traversal(k)
\* can be made and returns that tracker's committed and finished promises,
\* registers no second tracker and applies no history step.
C3_SecondCallSameTracker ==
    \A i \in 1..Len(upcoming_traverse_method_tracker) :
        /\ ~aborted
        /\ \A answer \in DocumentAnswers :
            LET entry == upcoming_traverse_method_tracker[i]
                second == Perform(entry.key, answer)
            IN /\ second.result.outcome = "derived"
               /\ second.result.committed = entry.value.committed_promise
               /\ second.result.finished = entry.value.finished_promise
               /\ second.map = upcoming_traverse_method_tracker
               /\ second.applied = ""

\* C4: TraverseTo(key) with a key no entry of entry_list has returns an early
\* error result rejected with InvalidStateError whatever current_entry_index
\* is, registers no tracker and applies no history step.
C4_TraverseToUnknownKey ==
    (last.op = "TraverseTo" /\ last.key \notin Range(entry_list))
    => /\ EarlyInvalidState(last.ret)
       /\ upcoming_traverse_method_tracker = <<>>
       /\ last.applied = ""

\* C5: on a document that is not fully active, Navigate, Reload, Back,
\* Forward and TraverseTo each return an early error result rejected with
\* InvalidStateError (no other error, nothing thrown) and leave both tracker
\* structures as they were.
C5_NotFullyActive ==
    (~document.fully_active /\ last.op \in TraversalOps \cup {"Navigate", "Reload"})
    => /\ EarlyInvalidState(last.ret)
       /\ upcoming_traverse_method_tracker = <<>>
       /\ upcoming_non_traverse_method_tracker = None

\* C7: no Navigation API call aborts the thread: every failure is a rejected
\* promise or an error value.
C7_NoCallAborts ==
    ~aborted /\ last.ret.outcome # "panic"

\* C8: add_an_upcoming_traverse_api_method_tracker(key), for a key not in
\* the map, completes normally, leaves the map with key mapped to a new
\* tracker and every other entry as it was, and returns that tracker.
C8_AddReturnsStoredTracker ==
    \A key \in KeyArguments :
        (~aborted /\ ~IsSome(MapGet(upcoming_traverse_method_tracker, key)))
        => LET added == add_an_upcoming_traverse_api_method_tracker(
                            promises, upcoming_traverse_method_tracker, key)
           IN /\ ~added.panicked
              /\ MapGet(added.map, key) = Some(added.tracker)
              /\ \A other \in KeyArguments \ {key} :
                    MapGet(added.map, other)
                        = MapGet(upcoming_traverse_method_tracker, other)

\* C9: a traversal whose history step application returns
\* CancelledByBeforeUnload ends with the tracker's finished promise rejected
\* with AbortError, one that returns InitiatorDisallowed with it rejected with
\* SecurityError, and the call that started the traversal returns the
\* tracker-derived result without throwing.
FinishedRejectedWith(e) ==
    \A i \in 1..Len(upcoming_traverse_method_tracker) :
        promises[upcoming_traverse_method_tracker[i].value.finished_promise]
            = [state |-> "rejected", value |-> ErrorValue(e)]

C9_AsyncErrorsOnFinished ==
    (last.op \in TraversalOps /\ upcoming_traverse_method_tracker # <<>>)
    => /\ last.ret.outcome = "derived"
       /\ last.applied = "CancelledByBeforeUnload" => FinishedRejectedWith(AbortError)
       /\ last.applied = "InitiatorDisallowed" => FinishedRejectedWith(SecurityError)

Position(event, t) ==
    CHOOSE i \in 1..Len(log) : log[i] = [event |-> event, task |-> t]

Happened(event, t) == \E i \in 1..Len(log) : log[i] = [event |-> event, task |-> t]

C10_SubmissionOrder ==
    \A b \in 1..enqueued : Happened("start", b) =>
        \A a \in 1..(b - 1) :
            /\ Happened("finish", a)
            /\ Position("finish", a) < Position("start", b)

\* C11: a tracker registered in the upcoming-traverse map is removed from it
\* by the time its traversal is over: once no step of the call that
\* registered it remains to run (here: the thread has stopped, the only way a
\* registering call ends), the map no longer holds it.
C11_TrackersRemoved ==
    aborted => upcoming_traverse_method_tracker = <<>>

\* The navigation has a current entry and its navigation API key is key.
CurrentEntryHasKey(key) ==
    /\ document.fully_active
    /\ ~document.initial_about_blank
    /\ ~document.opaque_origin
    /\ IsSome(current_entry_index)
    /\ entry_list[Unwrap(current_entry_index) + 1] = key

\* C12: perform_a_navigation_api_traversal(key), on a fully active document
\* with unload counter 0 whose current entry has key, returns committed and
\* finished promises already resolved with the current entry, registers no
\* tracker, applies no history step and leaves entry_list and
\* current_entry_index as they were.
C12_NoOpTraversal ==
    [][(/\ last'.op = "perform_a_navigation_api_traversal"
        /\ document.unload_counter = 0
        /\ CurrentEntryHasKey(last'.key))
       => /\ last'.ret.outcome = "resolved"
          /\ promises'[last'.ret.committed]
                = [state |-> "resolved", value |-> EntryValue(last'.key)]
          /\ promises'[last'.ret.finished]
                = [state |-> "resolved", value |-> EntryValue(last'.key)]
          /\ upcoming_traverse_method_tracker' = upcoming_traverse_method_tracker
          /\ upcoming_non_traverse_method_tracker' = upcoming_non_traverse_method_tracker
          /\ last'.applied = ""
          /\ ~aborted'
          /\ entry_list' = entry_list
          /\ current_entry_index' = current_entry_index]_vars

C12_Witness ==
    /\ last.op = "perform_a_navigation_api_traversal"
    /\ document.unload_counter = 0
    /\ CurrentEntryHasKey(last.key)
    /\ Len(entry_list) = 3
    /\ last.ret.outcome = "resolved"

\* C13: with the document's unload counter above 0, Reload, Back, Forward,
\* TraverseTo and a Navigate that got past its argument checks each report
\* InvalidStateError and register no tracker, in the slot or in the map.
C13_PendingUnloads ==
    (/\ document.unload_counter > 0
     /\ \/ last.op \in TraversalOps \cup {"Reload"}
        \/ /\ last.op = "Navigate"
           /\ ParseWithBaseOk(last.url)
           /\ ~(last.history = "push"
                /\ (Scheme(last.url) = "javascript" \/ document.initial_about_blank)))
    => /\ last.ret.error = InvalidState
       /\ upcoming_non_traverse_method_tracker = None
       /\ upcoming_traverse_method_tracker = <<>>

\* C14: Forward() with current_entry_index = Some(i), i + 1 < len (i = 0
\* included), hands perform_a_navigation_api_traversal the key of
\* entry_list[i+1]; with None or the last index it returns an early error
\* result rejected with InvalidStateError and does not delegate.
C14_ForwardDelegates ==
    last.op = "Forward"
    => /\ (IsSome(current_entry_index)
           /\ Unwrap(current_entry_index) + 1 < Len(entry_list))
          => last.delegated = Some(entry_list[Unwrap(current_entry_index) + 2])
       /\ (~IsSome(current_entry_index)
           \/ Unwrap(current_entry_index) = Len(entry_list) - 1)
          => (EarlyInvalidState(last.ret) /\ last.delegated = None)

\* C15: Back() with current_entry_index = Some(i), 1 <= i < len, hands
\* perform_a_navigation_api_traversal the key of entry_list[i-1]; with None
\* or Some(0) it returns an early error result rejected with
\* InvalidStateError and does not delegate.
C15_BackDelegates ==
    last.op = "Back"
    => /\ (IsSome(current_entry_index)
           /\ 1 <= Unwrap(current_entry_index)
           /\ Unwrap(current_entry_index) < Len(entry_list))
          => last.delegated = Some(entry_list[Unwrap(current_entry_index)])
       /\ (current_entry_index = None \/ current_entry_index = Some(0))
          => (EarlyInvalidState(last.ret) /\ last.delegated = None)

C15_Witness ==
    /\ last.op = "Back"
    /\ current_entry_index = Some(2)
    /\ last.delegated = Some(entry_list[2])

\* C16: TraverseTo(key) with current_entry_index present and key the key of
\* some entry of entry_list hands perform_a_navigation_api_traversal exactly
\* key, wherever that entry is relative to the current one.
C16_TraverseToTarget ==
    (/\ last.op = "TraverseTo"
     /\ IsSome(current_entry_index)
     /\ last.key \in Range(entry_list))
    => last.delegated = Some(last.key)

\* C17: maybe_set_the_upcoming_non_traverse_api_method_tracker() (reached
\* through Reload on a fully active document) returns a tracker made by this
\* call, with promises no earlier tracker or result has; the slot holds that
\* tracker afterwards if entries and events are not disabled, and is left as
\* it was if they are.
C17_MaybeSetSlot ==
    [][(last'.op = "Reload" /\ document.fully_active)
       => LET c == last'.ret.committed
              f == last'.ret.finished
          IN /\ last'.ret.outcome = "derived"
             /\ c \notin DOMAIN promises
             /\ f \notin DOMAIN promises
             /\ c # f
             /\ IF ~has_entries_and_events_disabled(document)
                THEN upcoming_non_traverse_method_tracker'
                        = Some(NavigationApiMethodTracker_new(c, f))
                ELSE upcoming_non_traverse_method_tracker'
                        = upcoming_non_traverse_method_tracker]_vars

C17_Witness ==
    /\ last.op = "Reload"
    /\ document.fully_active
    /\ ~has_entries_and_events_disabled(document)
    /\ IsSome(upcoming_non_traverse_method_tracker)
    /\ Unwrap(upcoming_non_traverse_method_tracker).committed_promise = last.ret.committed
    /\ Unwrap(upcoming_non_traverse_method_tracker).finished_promise = last.ret.finished

\* The three conditions under which entries and events are disabled.
DisabledDocument ==
    \/ ~document.fully_active
    \/ document.initial_about_blank
    \/ document.opaque_origin

Getters == {"CanGoBack", "CanGoForward", "Entries", "GetCurrentEntry"}

\* C18: entries and events are disabled exactly when the document is not
\* fully active, or is the initial about:blank document, or has an opaque
\* origin; when they are, CanGoBack() and CanGoForward() return false,
\* Entries() the empty list and GetCurrentEntry() null, whatever entry_list
\* and current_entry_index hold; and none of the four calls changes the
\* Navigation.
C18_DisabledGetters ==
    [][/\ has_entries_and_events_disabled(document) <=> DisabledDocument
       /\ last'.op \in Getters
          => /\ UNCHANGED <<entry_list, current_entry_index, document,
                            upcoming_non_traverse_method_tracker,
                            upcoming_traverse_method_tracker>>
             /\ ~aborted'
             /\ DisabledDocument
                => /\ last'.op \in {"CanGoBack", "CanGoForward"}
                      => (last'.ret.outcome = "bool" /\ ~last'.ret.flag)
                   /\ last'.op = "Entries" => last'.value = <<>>
                   /\ last'.op = "GetCurrentEntry" => last'.value = None]_vars

C18_Witness ==
    /\ last.op = "Entries"
    /\ document.fully_active
    /\ ~document.initial_about_blank
    /\ document.opaque_origin
    /\ Len(entry_list) = 3
    /\ current_entry_index = Some(1)
    /\ last.value = <<>>

\* C19: Navigate(url, options) returns a SyntaxError early error result
\* when, and only when, url fails to parse against the document's URL.
C19_SyntaxErrorOnlyOnParseFailure ==
    last.op = "Navigate"
    => ((last.ret.outcome = "early_error" /\ last.ret.error = Syntax)
        <=> ~ParseWithBaseOk(last.url))

\* C20: is_top_level() returns true if and only if the navigable has no
\* parent, and the call changes nothing of the navigable.
C20_IsTopLevel ==
    [][top_level' # top_level
       => /\ top_level'.called
          /\ top_level'.result <=> (parent = None)
          /\ UNCHANGED <<parent, session_history_entries, used>>]_vars

C20_Witness ==
    /\ top_level.called
    /\ parent = Some("dropped")
    /\ ~top_level.result
    /\ session_history_entries # <<>>

\* C24: a traversal goes from no tracker, to tracker registered, to step
\* applied, to settled: when a history step has been applied the tracker of
\* its key is in the upcoming-traverse map, and while none has been applied
\* neither promise of a registered tracker is settled.
C24_TrackerLifecycle ==
    /\ last.applied \in HistoryApplicationResult
       => IsSome(MapGet(upcoming_traverse_method_tracker, Unwrap(last.delegated)))
    /\ last.applied \notin HistoryApplicationResult
       => \A i \in 1..Len(upcoming_traverse_method_tracker) :
            LET tracker == upcoming_traverse_method_tracker[i].value
            IN /\ promises[tracker.committed_promise].state = "pending"
               /\ promises[tracker.finished_promise].state = "pending"

\* C26: a perform_a_navigation_api_traversal(key) that fails because the
\* document is not fully active, or its unload counter is above 0, or it has
\* no browsing context, or the target entry is the active entry, or the
\* target entry's step is pending, returns an early error result and leaves
\* the upcoming-traverse map exactly as it was.
C26_EarlyErrorLeavesMap ==
    \A key \in KeyArguments, answer \in DocumentAnswers :
        LET call == Perform(key, answer)
            refused == ~document.fully_active \/ document.unload_counter > 0
            asked == /\ GetCurrentEntry(document, entry_list, current_entry_index) # Some(key)
                     /\ ~IsSome(MapGet(upcoming_traverse_method_tracker, key))
                     /\ answer \in {"no_browsing_context", "is_active_entry", "step_pending"}
        IN (~aborted /\ (refused \/ asked))
           => /\ call.result.outcome = "early_error"
              /\ call.map = upcoming_traverse_method_tracker

\* C27: stop() returns: it is never left in join() on a worker that is
\* blocked in Condvar::wait after stop's notify_all has been sent.
C27_StopReturns ==
    ~(client = "join" /\ worker = "blocked")

TaskLog == SelectSeq(log, LAMBDA e : e.event \in {"start", "finish"})

StopCalls == {i \in 1..Len(log) : log[i].event = "stop"}

\* Every step starts at most once, and a step that has started finishes
\* before the next one starts.
AtMostOnceAndApart ==
    /\ \A i, j \in 1..Len(TaskLog) :
          (TaskLog[i] = TaskLog[j] /\ TaskLog[i].event = "start") => i = j
    /\ \A i \in 1..Len(TaskLog) :
          TaskLog[i].event = "start"
          => (i = Len(TaskLog)
              \/ TaskLog[i + 1] = [event |-> "finish", task |-> TaskLog[i].task])
    /\ \A i \in 1..Len(TaskLog) : TaskLog[i].task \in 1..enqueued

\* C28 as claimed: every step is executed at most once, no two at the same
\* time, and once stop() has returned every step enqueued before stop() was
\* called has been executed.
C28_StopRunsPendingSteps ==
    /\ AtMostOnceAndApart
    /\ client = "stopped"
       => \A i \in StopCalls : \A t \in 1..log[i].task : Happened("finish", t)

\* C28 as it holds: every step is executed at most once, only after it was
\* enqueued, and no two steps execute at the same time; stop() does not wait
\* for the steps still in the queue, which may never be executed.
C28_AtMostOnceAndApart ==
    AtMostOnceAndApart

C28_Witness ==
    /\ client = "stopped"
    /\ Happened("finish", 1)
    /\ Happened("finish", 2)
    /\ queue # <<>>

\* C21: after initialize(document_state, parent) with a document in
\* document_state, the navigable's current and active session history entry
\* are one and the same entry, made by this call, whose URL is the
\* document's URL, and the navigable's parent is the parent given.
C21_InitializeSetsEntries ==
    [][(initialized'.called /\ IsSome(initialized'.document_state.document)
        /\ rc_entries' # rc_entries)
       => LET entry == navigable'.current_session_history_entry
          IN /\ ~initialized'.panicked
             /\ navigable'.active_session_history_entry = entry
             /\ entry \notin DOMAIN rc_entries
             /\ DOMAIN rc_entries' = DOMAIN rc_entries \cup {entry}
             /\ rc_entries'[entry].url = Unwrap(initialized'.document_state.document)
             /\ navigable'.parent = initialized'.parent]_vars

C21_Witness ==
    /\ initialized.called
    /\ initialized.document_state.document = Some("https://example.org/#top")
    /\ initialized.parent = Some("alive")
    /\ navigable.current_session_history_entry = 3
    /\ navigable.active_session_history_entry = 3

\* C22: the entry initialize builds has step 0, and when parent is absent
\* it is in the traversable's session history entries afterwards.
C22_InitialEntryStepAndList ==
    (initialized.called /\ ~initialized.panicked)
    => LET entry == navigable.current_session_history_entry
       IN /\ rc_entries[entry].step = Integer(0)
          /\ initialized.parent = None
             => \E i \in 1..Len(traversable.session_history_entries) :
                    traversable.session_history_entries[i] = entry


\* C23: in every reachable state of a navigable's entry list the integer
\* steps do not decrease along the list and no two entries of the list share
\* a navigation API key; and no step of the program (creating an entry,
\* setting a step, setting the navigation API state) reorders the list or
\* changes the key of an entry.
StepsNonDecreasing(list) ==
    \A i, j \in 1..Len(list) :
        (i < j /\ IsSome(list[i].step) /\ IsSome(list[j].step))
            => Unwrap(list[i].step) <= Unwrap(list[j].step)

KeysUnique(list) ==
    \A i, j \in 1..Len(list) : eq(list[i], list[j]) => i = j

KeysKept ==
    /\ Len(history_entries') = Len(history_entries)
    /\ \A i \in 1..Len(history_entries) : eq(history_entries'[i], history_entries[i])

C23_EntryListOrdered ==
    /\ [](StepsNonDecreasing(history_entries) /\ KeysUnique(history_entries))
    /\ [][KeysKept]_vars

SignalAbortStep(strict) ==
    \A x \in 1..Len(signals) :
        /\ Aborted(signals[x]) =>
               /\ signals'[x].reason = signals[x].reason
               /\ signals'[x].abort_algorithms = <<>>
               /\ \A a \in 1..Len(algorithms) :
                      algorithms[a].signal = x => algorithms'[a].runs = algorithms[a].runs
        /\ (~Aborted(signals[x]) /\ Aborted(signals'[x])) =>
               /\ \A a \in SeqToSet(signals[x].abort_algorithms) :
                      algorithms[a].runs = 0 /\ algorithms'[a].runs = 1
               /\ signals'[x].abort_algorithms = <<>>
               /\ \A d \in SeqToSet(signals[x].dependent_signals) :
                      signals[d].live =>
                          /\ Aborted(signals'[d])
                          /\ (strict \/ (~Aborted(signals[d]) /\ last_call'.silent))
                                 => signals'[d].reason = signals'[x].reason

\* C29 as stated: once a signal is aborted its reason never changes, its
\* list of abort algorithms stays empty and no algorithm runs again; the
\* first signal_abort on a signal runs each registered algorithm exactly
\* once, empties the list and leaves every dependent signal that still roots
\* aborted with the same reason.
C29_AbortIsFinal == [][SignalAbortStep(TRUE)]_vars

\* C29 amended: as above, but a dependent signal carries the same reason
\* only if it was not aborted before the call and no abort listener run
\* during the call aborted a signal; it is aborted in every case.
C29_AbortIsFinalFirstReasonKept == [][SignalAbortStep(FALSE)]_vars

\* signal_abort("r1") has just aborted a controller's signal: an algorithm
\* added to the signal has run once, and a dependent signal that still roots
\* carries "r1".
C29_Witness ==
    /\ last_call.op = "signal_abort"
    /\ last_call.reason = "r1"
    /\ last_call.signal \in 1..Len(signals)
    /\ LET x == last_call.signal
       IN /\ ~signals[x].dependent
          /\ signals[x].reason = "r1"
          /\ signals[x].abort_algorithms = <<>>
          /\ \E a \in 1..Len(algorithms) : algorithms[a] = [signal |-> x, runs |-> 1]
          /\ \E d \in SeqToSet(signals[x].dependent_signals) :
                 signals[d].live /\ signals[d].reason = "r1"

\* C30: the interception state of a NavigateEvent changes only when
\* Intercept moves it from "none" or "intercepted" to "intercepted" and when
\* Scroll moves it from "committed" to "scrolled"; a call of Intercept or
\* Scroll returns an error exactly when the document is not fully active,
\* the event is untrusted or canceled, canIntercept is false or the event is
\* not being dispatched (Intercept), or the state is not "committed"
\* (Scroll); and a call that returns an error leaves the interception state,
\* the handler list, the focus reset and the scroll behaviour as they were.
SharedChecksFail(ev) == ~ev.fully_active \/ ~ev.is_trusted \/ ev.canceled

C30_InterceptionStateMoves ==
    [][LET ev == navigate_event
           after == navigate_event'
           call == event_call'
       IN /\ after.interception_state # ev.interception_state =>
                \/ /\ call.op = "Intercept"
                   /\ ev.interception_state \in {"none", "intercepted"}
                   /\ after.interception_state = "intercepted"
                \/ /\ call.op = "Scroll"
                   /\ ev.interception_state = "committed"
                   /\ after.interception_state = "scrolled"
          /\ call.op = "Intercept" =>
                (call.result # Ok <=>
                    (SharedChecksFail(ev) \/ ~ev.can_intercept \/ ~ev.dispatching))
          /\ call.op = "Scroll" =>
                (call.result # Ok <=>
                    (SharedChecksFail(ev) \/ ev.interception_state # "committed"))
          /\ call.result # Ok =>
                /\ after.interception_state = ev.interception_state
                /\ after.navigation_handler_list = ev.navigation_handler_list
                /\ after.focus_reset = ev.focus_reset
                /\ after.scroll_behavior = ev.scroll_behavior]_vars

\* Intercept has moved the event to "intercepted" and taken a handler, a
\* focus reset and a scroll behaviour; the Scroll that followed returned an
\* InvalidStateError, the state not being "committed", and left them alone.
C30_Witness ==
    /\ event_call = [op |-> "Scroll", result |-> InvalidState]
    /\ navigate_event.interception_state = "intercepted"
    /\ navigate_event.navigation_handler_list = <<"handler">>
    /\ navigate_event.focus_reset = Some("manual")
    /\ navigate_event.scroll_behavior = Some("after-transition")
    /\ ~SharedChecksFail(navigate_event)


============================================================================
